---- MODULE Spec2Model ----
(***************************************************************************)
(* A model of okcupyd/util/currying.py: the class curry (its constructor,  *)
(* its call operator and its descriptor protocol), the two evaluation      *)
(* checkers it ships, and the module-level self application                *)
(* curry = curry(curry).                                                   *)
(*                                                                         *)
(* Python objects that have identity and mutable state live in heaps:      *)
(*   wrappers  - the instances of class curry, by allocation order         *)
(*   dicts     - the dict objects referenced by wrappers (self.kwargs)     *)
(*   instances - the __dict__ of every host instance                       *)
(*   namespace - the __dict__ of the host class (attribute -> wrapper)     *)
(*   held      - the value the program got from its first obj.attr, which  *)
(*               it keeps, per instance and attribute                      *)
(* last records what the most recent operation was given and what it did.  *)
(* probe holds one application of the arity checker to a drawn signature.  *)
(***************************************************************************)
EXTENDS Integers, Sequences, FiniteSets, TLC

VARIABLES wrappers, dicts, instances, namespace, held, last, probe

vars == <<wrappers, dicts, instances, namespace, held, last, probe>>

(***************************************************************************)
(* Bounds of the model.                                                    *)
(***************************************************************************)
\* positional arguments given in one call
MaxCallArgs == 2
\* thresholds handed to count_evaluation_checker
MaxCount == 2
\* declared parameters of a drawn signature
MaxParams == 3

(***************************************************************************)
(* Python values.  Every value is a record of the same shape, so that any  *)
(* two values can be compared.                                             *)
(***************************************************************************)
Val(t, name, n) == [t |-> t, name |-> name, n |-> n]

None == Val("None", "", 0)
EmptyTuple == Val("tuple", "", 0)
Num(i) == Val("int", "", i)
Bool(b) == Val("bool", "", IF b THEN 1 ELSE 0)
Str(s) == Val("str", s, 0)
\* a function or class object, by name
Function(name) == Val("function", name, 0)
\* a host instance, by name
Instance(name) == Val("instance", name, 0)
\* a reference to the curry object wrappers[i]
Ref(i) == Val("curry", "", i)
\* a reference to the dict object dicts[i]
DictRef(i) == Val("dict", "", i)
\* the value an uninterpreted callable returns
Result(name) == Val("result", name, 0)

EmptyDict == <<>>

Range(s) == {s[i] : i \in DOMAIN s}
Max(a, b) == IF a > b THEN a ELSE b

\* s[i:] for i >= 0
SliceFrom(s, i) == SubSeq(s, i + 1, Len(s))
\* s[:-k] for k >= 0; -0 is 0, so s[:-0] is s[:0], the empty sequence
SliceDropLast(s, k) == IF k = 0 THEN <<>> ELSE SubSeq(s, 1, Max(Len(s) - k, 0))

(***************************************************************************)
(* The callables the model wraps: what inspect reports about each.         *)
(***************************************************************************)
ArgSpec(args, varargs, keywords, defaults) ==
    [args |-> args, varargs |-> varargs, keywords |-> keywords, defaults |-> defaults]

\* inspect.isclass
isclass(function) == function.name \in {"curry", "Point"}

\* inspect.getargspec of a function, or of the __init__ of a class.
\* keywords and varargs are <<>> for None, defaults is the tuple of defaults.
getargspec(function) ==
    CASE function.name = "curry" ->
           ArgSpec(<<"self", "function", "evaluation_checker", "args", "kwargs">>,
                   <<>>, <<>>, <<None, EmptyTuple, None>>)
      [] function.name = "greater_than" -> ArgSpec(<<"x", "y">>, <<>>, <<>>, <<>>)
      [] function.name = "nullary" -> ArgSpec(<<>>, <<>>, <<>>, <<>>)
      [] function.name = "ternary" -> ArgSpec(<<"x", "y", "z">>, <<>>, <<>>, <<>>)
      [] function.name = "defaulted" -> ArgSpec(<<"x", "y">>, <<>>, <<>>, <<Num(1)>>)
      [] function.name = "args_taking_function" ->
           ArgSpec(<<>>, <<"args">>, <<>>, <<>>)
      [] function.name = "keyworded" -> ArgSpec(<<"x">>, <<>>, <<"kwargs">>, <<>>)
      [] function.name = "variadic" -> ArgSpec(<<>>, <<"args">>, <<"kwargs">>, <<>>)
      [] function.name = "Point" -> ArgSpec(<<"self", "x", "y">>, <<>>, <<>>, <<>>)
      [] function.name = "greet" -> ArgSpec(<<"self", "greeting">>, <<>>, <<>>, <<>>)
      [] function.name = "hello" -> ArgSpec(<<"self", "greeting">>, <<>>, <<>>, <<>>)
      [] function.name = "tagged" ->
           ArgSpec(<<"self", "tag", "greeting">>, <<>>, <<>>, <<>>)

\* function.__name__
name_of(function) == function.name

\* function.__doc__: None for a def without a docstring
doc_of(function) ==
    CASE function.name = "curry" -> Str("Curry a function or method.")
      [] function.name = "greet" -> Str("Say the greeting.")
      [] function.name = "tagged" -> Str("Say the greeting with a tag.")
      [] OTHER -> None

(***************************************************************************)
(* curry.arity_evaluation_checker (lines 54-82).                           *)
(***************************************************************************)
\* lines 59-67 and 82: what the returned closure captures
arity_evaluation_checker(is_class, function_info) ==
    [function_info |-> function_info,
     function_args |-> IF is_class THEN SliceFrom(function_info.args, 1)
                                   ELSE function_info.args]

\* line 79-80 with the guard on function_info.defaults left out: s[:-0] is s[:0]
needed_args_unguarded(closure, args) ==
    SliceDropLast(SliceFrom(closure.function_args, Len(args)),
                  Len(closure.function_info.defaults))

\* lines 78-80
needed_args(closure, args) ==
    LET needed == SliceFrom(closure.function_args, Len(args))
    IN  IF closure.function_info.defaults # <<>>
        THEN SliceDropLast(needed, Len(closure.function_info.defaults))
        ELSE needed

\* line 81 with the containment the wrong way round
evaluation_checker_subset(closure, args, kwargs) ==
    \/ needed_args(closure, args) = <<>>
    \/ DOMAIN kwargs \subseteq Range(needed_args(closure, args))

\* lines 68-81.  Lines 70-77 build a TypeError and drop it: nothing is raised
\* and nothing else depends on acceptable_kwargs.
evaluation_checker(closure, args, kwargs) ==
    \/ needed_args(closure, args) = <<>>
    \/ Range(needed_args(closure, args)) \subseteq DOMAIN kwargs

\* lines 70-73: whether the closure reaches the line that builds the TypeError
unrecognized_arguments(closure, args, kwargs) ==
    /\ closure.function_info.keywords = <<>>
    /\ ~(DOMAIN kwargs \subseteq Range(SliceFrom(closure.function_args, Len(args))))

(***************************************************************************)
(* curry.count_evaluation_checker (lines 84-88).                           *)
(***************************************************************************)
count_function_strict(count, args, kwargs) == Len(args) > count

\* lines 86-87, the closure over count
count_function(count, args, kwargs) == Len(args) >= count

\* the closure objects
ArityChecker(function) == Val("evaluation_checker", function.name, 0)
count_evaluation_checker(count) == Val("count_checker", "", count)

\* line 110: self.evaluation_checker(*new_args, **new_kwargs)
check(checker, args, kwargs) ==
    IF checker.t = "count_checker"
    THEN count_function(checker.n, args, kwargs)
    ELSE evaluation_checker(
             arity_evaluation_checker(isclass(Function(checker.name)),
                                      getargspec(Function(checker.name))),
             args, kwargs)

(***************************************************************************)
(* What Python does when a callable is called (line 111): bind the         *)
(* arguments to the declared parameters, then run the body.                *)
(***************************************************************************)
\* the parameters a caller fills: a class is called without its self
params(function) ==
    IF isclass(function) THEN SliceFrom(getargspec(function).args, 1)
                         ELSE getargspec(function).args

index(seq, x) == CHOOSE i \in DOMAIN seq : seq[i] = x

\* TRUE when Python raises TypeError instead of entering the body
binding_fails(function, args, kwargs) ==
    LET info == getargspec(function)
        ps == params(function)
        required == Max(Len(ps) - Len(info.defaults), 0)
    IN  \/ Len(args) > Len(ps) /\ info.varargs = <<>>
        \/ \E k \in DOMAIN kwargs :
              \/ k \notin Range(ps) /\ info.keywords = <<>>
              \/ k \in Range(ps) /\ index(ps, k) <= Len(args)
        \/ \E i \in 1..required : i > Len(args) /\ ps[i] \notin DOMAIN kwargs

\* the value bound to a declared parameter once binding succeeded
param(function, args, kwargs, name) ==
    LET info == getargspec(function)
        ps == params(function)
        i == index(ps, name)
    IN  IF i <= Len(args) THEN args[i]
        ELSE IF name \in DOMAIN kwargs THEN kwargs[name]
        ELSE info.defaults[i - (Len(ps) - Len(info.defaults))]

\* the body of an ordinary callable: greater_than is the docstring's
\* example (lines 13-15), every other callable is left uninterpreted
body(function, args, kwargs) ==
    IF function.name = "greater_than"
    THEN Bool(param(function, args, kwargs, "x").n > param(function, args, kwargs, "y").n)
    ELSE Result(function.name)

(***************************************************************************)
(* curry.__init__ (lines 90-104), reached as type(self)(...) or by         *)
(* calling the class.  ws and ds are the heaps; kwargs is None or a        *)
(* reference to a dict.                                                    *)
(***************************************************************************)
\* line 100 with the given checker ignored
choose_checker_always_arity(function, checker) == ArityChecker(function)

\* lines 99-100: evaluation_checker or self.arity_evaluation_checker(function)
choose_checker(function, checker) ==
    IF checker = None THEN ArityChecker(function) ELSE checker

__init__(ws, ds, function, checker, args, kwargs) ==
    LET fresh == kwargs = None \/ ds[kwargs.n] = EmptyDict
        ds1 == IF fresh THEN Append(ds, EmptyDict) ELSE ds
        self == [function |-> function,
                 evaluation_checker |-> choose_checker(function, checker),
                 args |-> args,
                 kwargs |-> IF fresh THEN Len(ds1) ELSE kwargs.n,
                 __name__ |-> name_of(function),
                 __doc__ |-> doc_of(function)]
    IN  [wrappers |-> Append(ws, self), dicts |-> ds1, ref |-> Len(ws) + 1]

(***************************************************************************)
(* curry.__call__ (lines 106-114).                                         *)
(***************************************************************************)
\* line 107 with the operands swapped
concat_swapped(self_args, args) == args \o self_args

\* line 107: self.args + args
concat(self_args, args) == self_args \o args

\* line 108 without the copy: new_kwargs is self.kwargs itself
copy_alias(ds, id) == [dicts |-> ds, id |-> id]

\* line 108: self.kwargs.copy() allocates a new dict
copy(ds, id) == [dicts |-> Append(ds, ds[id]), id |-> Len(ds) + 1]

\* line 109 with the old value kept on a shared key
update_keep_old(d, kwargs) ==
    [k \in DOMAIN d \cup DOMAIN kwargs |-> IF k \in DOMAIN d THEN d[k] ELSE kwargs[k]]

\* line 109: dict.update
update(d, kwargs) ==
    [k \in DOMAIN d \cup DOMAIN kwargs |-> IF k \in DOMAIN kwargs THEN kwargs[k] ELSE d[k]]

\* line 111: self.function(*new_args, **new_kwargs).  Calling the class curry
\* runs __init__ on a new object; its args and kwargs parameters are only
\* ever left at their defaults () and None by the calls modelled here.
apply(ws, ds, function, args, kwargs) ==
    IF binding_fails(function, args, kwargs)
    THEN [wrappers |-> ws, dicts |-> ds, ret |-> None, exc |-> "TypeError"]
    ELSE IF function.name = "curry"
    THEN LET o == __init__(ws, ds, param(function, args, kwargs, "function"),
                           param(function, args, kwargs, "evaluation_checker"),
                           <<>>, None)
         IN  [wrappers |-> o.wrappers, dicts |-> o.dicts, ret |-> Ref(o.ref), exc |-> ""]
    ELSE [wrappers |-> ws, dicts |-> ds, ret |-> body(function, args, kwargs), exc |-> ""]

\* the four attributes of the curry object ws[i], its dict by content
view(ws, ds, i) ==
    [function |-> ws[i].function, evaluation_checker |-> ws[i].evaluation_checker,
     args |-> ws[i].args, kwargs |-> ds[ws[i].kwargs]]

__call__(ws, ds, i, args, kwargs) ==
    LET self == ws[i]
        new_args == concat(self.args, args)
        c == copy(ds, self.kwargs)
        ds1 == [c.dicts EXCEPT ![c.id] = update(@, kwargs)]
        new_kwargs == ds1[c.id]
        checked == check(self.evaluation_checker, new_args, new_kwargs)
        out == IF checked
               THEN apply(ws, ds1, self.function, new_args, new_kwargs)
               ELSE LET o == __init__(ws, ds1, self.function, self.evaluation_checker,
                                      new_args, DictRef(c.id))
                    IN  [wrappers |-> o.wrappers, dicts |-> o.dicts,
                         ret |-> Ref(o.ref), exc |-> ""]
    IN  [wrappers |-> out.wrappers, dicts |-> out.dicts, ret |-> out.ret, exc |-> out.exc,
         new_args |-> new_args, new_kwargs |-> new_kwargs, checked |-> checked,
         callee |-> view(ws, ds, i), callee_after |-> view(out.wrappers, out.dicts, i),
         invoked |-> IF checked
                     THEN <<[function |-> self.function, args |-> new_args,
                             kwargs |-> new_kwargs]>>
                     ELSE <<>>]

(***************************************************************************)
(* Reclaiming objects.  The program keeps every wrapper that a class       *)
(* namespace, an instance or held references, the first wrapper made of    *)
(* each callable and the wrapper made last; an older result that nothing   *)
(* references is garbage.  A dict lives as long as a wrapper references    *)
(* it.  Survivors keep their allocation order.                             *)
(***************************************************************************)
referenced(ns, inst, hd) ==
    {ns[a].n : a \in DOMAIN ns}
      \cup UNION {{inst[o][a].n : a \in DOMAIN inst[o]} : o \in DOMAIN inst}
      \cup UNION {{hd[o][a].n : a \in DOMAIN hd[o]} : o \in DOMAIN hd}

first_of(ws, i) == \A j \in 1..(i - 1) : ws[j].function # ws[i].function
last_of(ws, i) == \A j \in (i + 1)..Len(ws) : ws[j].function # ws[i].function

collect(ws, ds, ns, inst, hd, ret) ==
    LET keep == {i \in DOMAIN ws :
                    \/ i \in referenced(ns, inst, hd)
                    \/ first_of(ws, i)
                    \/ last_of(ws, i)}
        wrank(i) == Cardinality({j \in keep : j <= i})
        wat(k) == CHOOSE i \in keep : wrank(i) = k
        live == {ws[i].kwargs : i \in keep}
        rank(id) == Cardinality({j \in live : j <= id})
        at(k) == CHOOSE id \in live : rank(id) = k
        moved(v) == IF v.t = "curry" THEN Ref(wrank(v.n)) ELSE v
    IN  [wrappers |-> [k \in 1..Cardinality(keep) |->
                          [ws[wat(k)] EXCEPT !.kwargs = rank(@)]],
         dicts |-> [k \in 1..Cardinality(live) |-> ds[at(k)]],
         namespace |-> [a \in DOMAIN ns |-> moved(ns[a])],
         instances |-> [o \in DOMAIN inst |-> [a \in DOMAIN inst[o] |-> moved(inst[o][a])]],
         held |-> [o \in DOMAIN hd |-> [a \in DOMAIN hd[o] |-> moved(hd[o][a])]],
         ret |-> moved(ret),
         kept |-> [i \in DOMAIN ws |-> IF i \in keep THEN wrank(i) ELSE 0]]

(***************************************************************************)
(* The inputs the model draws.                                             *)
(***************************************************************************)
\* greater_than compares its arguments, so it is given the docstring's three
\* numbers; two values are enough to see the order an uninterpreted callable
\* receives its arguments in
PosValues(function) ==
    IF function.name = "greater_than" THEN {Num(39), Num(40), Num(50)}
                                      ELSE {Num(1), Num(2)}
\* the named arguments of one call: nothing, y (twice, to see which value
\* survives) or z
Named == {EmptyDict, [k \in {"y"} |-> Num(1)], [k \in {"y"} |-> Num(5)],
          [k \in {"z"} |-> Num(1)]}
Wrapped == {"greater_than", "nullary", "ternary", "defaulted",
            "args_taking_function", "keyworded", "variadic", "Point"}
Counts == 1..MaxCount
Checkers == {None} \cup {count_evaluation_checker(c) : c \in Counts}
\* the callables wrapped with a count checker
Counted == {"variadic"}

Tuples(S, n) == UNION {[1..k -> S] : k \in 0..n}
Mappings(K, V) == UNION {[S -> V] : S \in SUBSET K}

\* what a wrapper is called with: the constructor is given a callable and
\* perhaps a checker, any other callable is given numbers
ArgsFor(w) ==
    IF w.function.name = "curry"
    THEN Tuples({Function(f) : f \in Wrapped}, 1)
    ELSE Tuples(PosValues(w.function), MaxCallArgs)

KwargsFor(w) ==
    CASE w.function.name = "curry" ->
           Mappings({"evaluation_checker"}, {count_evaluation_checker(MaxCount)})
      [] w.function.name = "greater_than" -> {EmptyDict}
      [] OTHER -> Named

NoView == [function |-> None, evaluation_checker |-> None, args |-> <<>>,
           kwargs |-> EmptyDict]

\* last: the operation (op), the wrapper it was applied to (self, and callee:
\* its attributes before, callee_after: after), the instance and attribute of
\* an attribute access, the arguments given, what reached the checker
\* (new_args, new_kwargs) and what it answered (checked), the calls made of
\* the wrapped callable (invoked), the value returned or the exception
\* raised, and where each wrapper of the heap went (kept, 0: reclaimed)
NoOp == [op |-> "none", self |-> 0, obj |-> "", attr |-> "", args |-> <<>>,
         kwargs |-> EmptyDict, new_args |-> <<>>, new_kwargs |-> EmptyDict,
         checked |-> FALSE, invoked |-> <<>>, ret |-> None, exc |-> "",
         callee |-> NoView, callee_after |-> NoView, kept |-> <<>>]

NoProbe == [is_class |-> FALSE, function_info |-> ArgSpec(<<>>, <<>>, <<>>, <<>>),
            args |-> <<>>, kwargs |-> EmptyDict, result |-> FALSE, applied |-> FALSE]

(***************************************************************************)
(* Calling wrappers.                                                       *)
(***************************************************************************)
\* r = wrappers[i](*args, **kwargs)
Call(i, args, kwargs) ==
    \E out \in {__call__(wrappers, dicts, i, args, kwargs)} :
    \E heap \in {collect(out.wrappers, out.dicts, namespace, instances, held, out.ret)} :
        /\ wrappers' = heap.wrappers
        /\ dicts' = heap.dicts
        /\ namespace' = heap.namespace
        /\ instances' = heap.instances
        /\ held' = heap.held
        /\ last' = [NoOp EXCEPT !.op = "call", !.self = i, !.args = args,
                                !.kwargs = kwargs, !.new_args = out.new_args,
                                !.new_kwargs = out.new_kwargs,
                                !.checked = out.checked, !.invoked = out.invoked,
                                !.ret = heap.ret, !.exc = out.exc,
                                !.callee = out.callee,
                                !.callee_after = out.callee_after,
                                !.kept = SubSeq(heap.kept, 1, Len(wrappers))]
        /\ UNCHANGED probe

\* w = curry(f), or w = curry(evaluation_checker=curry.count_evaluation_checker(c))(f)
Init ==
    /\ \E f \in Wrapped, checker \in Checkers :
          /\ checker # None => f \in Counted
          /\ LET o == __init__(<<>>, <<>>, Function(f), checker, <<>>, None)
             IN  wrappers = o.wrappers /\ dicts = o.dicts
    /\ instances = <<>>
    /\ namespace = <<>>
    /\ held = <<>>
    /\ last = NoOp
    /\ probe = NoProbe

Next ==
    \E i \in DOMAIN wrappers :
       \E args \in ArgsFor(wrappers[i]), kwargs \in KwargsFor(wrappers[i]) :
          Call(i, args, kwargs)

Spec == Init /\ [][Next]_vars

(***************************************************************************)
(* Properties of the call operator.                                        *)
(***************************************************************************)
IsCall == last.op = "call"
ByArity == last.callee.evaluation_checker = ArityChecker(last.callee.function)
ByCount == last.callee.evaluation_checker.t = "count_checker"
ReturnedWrapper == last.exc = "" /\ last.ret.t = "curry" /\ last.ret.n \in DOMAIN wrappers
\* the one call of the wrapped callable an evaluating invocation makes
Evaluation == [function |-> last.callee.function, args |-> last.new_args,
               kwargs |-> last.new_kwargs]

\* C1: a callable with n required parameters and no defaults, wrapped with
\* the arity checker and called with positional arguments only: while fewer
\* than n arguments have accumulated the call returns a wrapper and does not
\* evaluate the callable; the call that brings the total to n evaluates it
\* exactly once and returns its result.
C1_PositionalCurrying ==
    (/\ IsCall /\ ByArity
     /\ getargspec(last.callee.function).defaults = <<>>
     /\ last.new_kwargs = EmptyDict)
    => LET n == Len(params(last.callee.function))
       IN  /\ Len(last.new_args) < n
                => /\ ReturnedWrapper
                   /\ last.invoked = <<>>
                   /\ wrappers[last.ret.n].args = last.new_args
           /\ Len(last.new_args) = n
                => /\ last.invoked = <<Evaluation>>
                   /\ last.exc = ""
                   /\ last.ret = body(last.callee.function, last.new_args, EmptyDict)

\* the third argument of ternary arrives in a call of its own, after a call
\* that gave none
C1_Witness ==
    /\ IsCall /\ ByArity
    /\ last.callee.function = Function("ternary")
    /\ Len(last.callee.args) = 2 /\ Len(last.args) = 1
    /\ last.new_kwargs = EmptyDict
    /\ last.invoked = <<Evaluation>>
    /\ last.ret = Result("ternary")

\* C2: the checker, and then the wrapped callable or the child wrapper, get
\* the accumulated positional arguments followed by the call's, and the
\* accumulated named arguments overlaid with the call's.
C2_Merging ==
    IsCall =>
       LET positional == last.callee.args \o last.args
           named == [k \in DOMAIN last.callee.kwargs \cup DOMAIN last.kwargs |->
                        IF k \in DOMAIN last.kwargs THEN last.kwargs[k]
                        ELSE last.callee.kwargs[k]]
       IN  /\ last.new_args = positional
           /\ last.new_kwargs = named
           /\ last.checked
                => last.invoked = <<[function |-> last.callee.function,
                                     args |-> positional, kwargs |-> named]>>
           /\ ~last.checked
                => /\ last.invoked = <<>>
                   /\ ReturnedWrapper
                   /\ view(wrappers, dicts, last.ret.n) =
                         [last.callee EXCEPT !.args = positional, !.kwargs = named]

\* a wrapper holding a positional argument and y=1 is called with another
\* positional argument and y=5, and the callable gets both arguments in
\* order and y=5
C2_Witness ==
    /\ IsCall
    /\ last.callee.args = <<Num(2)>> /\ last.args = <<Num(1)>>
    /\ "y" \in DOMAIN last.callee.kwargs /\ last.callee.kwargs["y"] = Num(1)
    /\ "y" \in DOMAIN last.kwargs /\ last.kwargs["y"] = Num(5)
    /\ last.checked
    /\ last.invoked[1].args = <<Num(2), Num(1)>>
    /\ last.invoked[1].kwargs["y"] = Num(5)

\* a step leaves every wrapper it does not reclaim as it was
WrappersUnchanged ==
    last'.op = "call" =>
       \A i \in DOMAIN wrappers :
          last'.kept[i] # 0 =>
             view(wrappers', dicts', last'.kept[i]) = view(wrappers, dicts, i)

\* the docstring's example: greater_than holding 40
Example ==
    (/\ IsCall
     /\ last.callee = [function |-> Function("greater_than"),
                       evaluation_checker |-> ArityChecker(Function("greater_than")),
                       args |-> <<Num(40)>>, kwargs |-> EmptyDict])
    => /\ last.args = <<Num(39)>> => last.ret = Bool(TRUE)
       /\ last.args = <<Num(50)>> => last.ret = Bool(FALSE)

\* C3: an invocation changes neither the wrapper invoked nor any other
\* wrapper, whether it evaluates or not; so the wrapper holding 40 gives True
\* on 39 and False on 50 whatever was called before.
C3_Immutable ==
    /\ [][WrappersUnchanged]_vars
    /\ [](IsCall => last.callee_after = last.callee)
    /\ []Example

\* the wrapper holding 40 is called with 50, answers False and is still in
\* the heap as it was
C3_Witness ==
    /\ IsCall
    /\ last.callee.function = Function("greater_than")
    /\ last.callee.args = <<Num(40)>> /\ last.args = <<Num(50)>>
    /\ last.ret = Bool(FALSE)
    /\ last.kept[last.self] # 0
    /\ view(wrappers, dicts, last.kept[last.self]) = last.callee

\* C5 as claimed: a name that is no parameter left unfilled ends the
\* invocation in a usage error, with no wrapper returned and the callable
\* not evaluated.
C5_UnrecognizedRaises ==
    (/\ IsCall /\ ByArity
     /\ unrecognized_arguments(
            arity_evaluation_checker(isclass(last.callee.function),
                                     getargspec(last.callee.function)),
            last.new_args, last.new_kwargs))
    => last.exc = "TypeError" /\ last.ret = None

\* C8: under the count checker an invocation evaluates exactly when the
\* merged positional arguments number at least count, whatever was named;
\* below that it returns a wrapper, and on evaluation the named arguments
\* go to the callable with the positional ones.
C8_CountChecker ==
    (IsCall /\ ByCount) =>
       LET count == last.callee.evaluation_checker.n
       IN  /\ last.checked <=> Len(last.new_args) >= count
           /\ Len(last.new_args) >= count => last.invoked = <<Evaluation>>
           /\ Len(last.new_args) < count
                => /\ last.invoked = <<>>
                   /\ ReturnedWrapper
                   /\ view(wrappers, dicts, last.ret.n) =
                         [last.callee EXCEPT !.args = last.new_args,
                                             !.kwargs = last.new_kwargs]

\* the count is reached by a call that names an argument, on a wrapper that
\* holds another named argument, and the callable returns
C8_Witness ==
    /\ IsCall /\ ByCount
    /\ last.callee.evaluation_checker.n = 2
    /\ Len(last.callee.args) = 1 /\ Len(last.args) = 1
    /\ DOMAIN last.callee.kwargs = {"y"} /\ DOMAIN last.kwargs = {"z"}
    /\ last.invoked = <<Evaluation>>
    /\ DOMAIN last.invoked[1].kwargs = {"y", "z"}
    /\ last.ret = Result("variadic")

(***************************************************************************)
(* The arity checker on its own: every signature inspect can report, up to *)
(* MaxParams parameters, applied to every count of positional arguments    *)
(* and every set of names.                                                 *)
(***************************************************************************)
ParamNames == <<"x", "y", "z", "u", "v">>

EmptyHeap ==
    /\ wrappers = <<>>
    /\ dicts = <<>>
    /\ instances = <<>>
    /\ namespace = <<>>
    /\ held = <<>>
    /\ last = NoOp

\* the signature, the positional arguments and the names are drawn
InitChecker ==
    /\ EmptyHeap
    /\ \E is_class \in BOOLEAN, n \in 0..MaxParams, keywords \in {<<>>, <<"kwargs">>} :
          \E d \in 0..(n + IF is_class THEN 1 ELSE 0), p \in 0..(n + 1),
             K \in SUBSET Range(ParamNames) :
             probe = [is_class |-> is_class,
                      function_info |->
                          ArgSpec((IF is_class THEN <<"self">> ELSE <<>>)
                                     \o SubSeq(ParamNames, 1, n),
                                  <<>>, keywords, [i \in 1..d |-> None]),
                      args |-> [i \in 1..p |-> Num(i)],
                      kwargs |-> [k \in K |-> Num(1)],
                      result |-> FALSE, applied |-> FALSE]

\* checker = curry.arity_evaluation_checker(function); checker(*args, **kwargs)
Probe ==
    /\ ~probe.applied
    /\ probe' = [probe EXCEPT
                    !.result = evaluation_checker(
                                   arity_evaluation_checker(probe.is_class,
                                                            probe.function_info),
                                   probe.args, probe.kwargs),
                    !.applied = TRUE]
    /\ UNCHANGED <<wrappers, dicts, instances, namespace, held, last>>

NextChecker == Probe

SpecChecker == InitChecker /\ [][NextChecker]_vars

\* C6: the arity checker answers true exactly when every declared parameter
\* without a default (the receiver of a constructor apart) is covered by a
\* positional argument or by a name.  For f(x, y=1): x alone and x with y
\* evaluate, y alone does not.
C6_ArityChecker ==
    probe.applied =>
       LET all == probe.function_info.args
           receiver == IF probe.is_class THEN 1 ELSE 0
           p == Len(probe.args)
           K == DOMAIN probe.kwargs
           has_default(i) == i > Len(all) - Len(probe.function_info.defaults)
       IN  probe.result <=>
              \A i \in (receiver + 1)..Len(all) :
                 ~has_default(i) => (i - receiver <= p \/ all[i] \in K)

\* f(x, y=1) given y alone: the checker answers false
C6_Witness ==
    /\ probe.applied
    /\ ~probe.is_class
    /\ probe.function_info.args = <<"x", "y">>
    /\ Len(probe.function_info.defaults) = 1
    /\ probe.args = <<>>
    /\ DOMAIN probe.kwargs = {"y"}
    /\ ~probe.result

(***************************************************************************)
(* The public constructor, curry = curry(curry) (line 131).                *)
(***************************************************************************)
CtorWrapped == {"nullary", "greater_than"}

InitCtor ==
    /\ LET o == __init__(<<>>, <<>>, Function("curry"), None, <<>>, None)
       IN  wrappers = o.wrappers /\ dicts = o.dicts
    /\ instances = <<>>
    /\ namespace = <<>>
    /\ held = <<>>
    /\ last = NoOp
    /\ probe = NoProbe

\* curry(...) and curry(evaluation_checker=X)(...)
NextCtor ==
    \E i \in DOMAIN wrappers :
       \E args \in Tuples({Function(f) : f \in CtorWrapped}, 1),
          kwargs \in KwargsFor(wrappers[i]) :
          /\ wrappers[i].function = Function("curry")
          /\ Call(i, args, kwargs)

SpecCtor == InitCtor /\ [][NextCtor]_vars

Constructor == IsCall /\ last.callee.function = Function("curry")

\* C7: the public constructor given only a checker returns a constructor
\* holding that checker and wraps nothing; given a callable, it or the
\* constructor it returned gives a wrapper of that callable with the held
\* checker (the arity checker when none is held) and empty accumulators.  The
\* callable is evaluated in no step, and a constructor holding a checker is
\* still there after it wrapped a callable.
C7_CurriedConstructor ==
    Constructor =>
       /\ last.args = <<>>
            => /\ last.invoked = <<>>
               /\ ReturnedWrapper
               /\ view(wrappers, dicts, last.ret.n) =
                     [last.callee EXCEPT !.kwargs = last.new_kwargs]
       /\ last.args # <<>>
            => /\ last.invoked = <<Evaluation>>
               /\ ReturnedWrapper
               /\ view(wrappers, dicts, last.ret.n) =
                     [function |-> last.args[1],
                      evaluation_checker |->
                          IF "evaluation_checker" \in DOMAIN last.new_kwargs
                          THEN last.new_kwargs["evaluation_checker"]
                          ELSE ArityChecker(last.args[1]),
                      args |-> <<>>, kwargs |-> EmptyDict]
               /\ last.kept[last.self] # 0
               /\ view(wrappers, dicts, last.kept[last.self]) = last.callee
       /\ \A k \in DOMAIN last.invoked : last.invoked[k].function = Function("curry")

\* the constructor holding a count checker wraps nullary, after it
\* wrapped greater_than
C7_Witness ==
    /\ Constructor
    /\ last.callee.args = <<>>
    /\ last.callee.kwargs =
          [k \in {"evaluation_checker"} |-> count_evaluation_checker(MaxCount)]
    /\ last.args = <<Function("nullary")>> /\ last.kwargs = EmptyDict
    /\ ReturnedWrapper
    /\ wrappers[last.ret.n].function = Function("nullary")
    /\ wrappers[last.ret.n].evaluation_checker = count_evaluation_checker(MaxCount)
    /\ \E i \in DOMAIN wrappers :
          /\ wrappers[i].function = Function("greater_than")
          /\ wrappers[i].evaluation_checker = count_evaluation_checker(MaxCount)

(***************************************************************************)
(* curry.__get__ (lines 116-124): wrappers stored in a class.              *)
(***************************************************************************)
Objs == {"a", "b"}

\* setattr(obj, name, value) on an instance
setattr(inst, o, name, value) ==
    [inst EXCEPT ![o] = [k \in DOMAIN @ \cup {name} |-> IF k = name THEN value ELSE @[k]]]

\* lines 119-124, obj an instance.  setattr raises TypeError when the name is
\* None, after line 122 has stored the bound wrapper.
__get__(ws, ds, inst, i, o) ==
    LET self == ws[i]
        b == __init__(ws, ds, self.function, self.evaluation_checker,
                      self.args \o <<Instance(o)>>, DictRef(self.kwargs))
        bound == Ref(b.ref)
        inst1 == setattr(inst, o, name_of(self.function), bound)
        doc == doc_of(self.function)
    IN  IF doc.t # "str"
        THEN [wrappers |-> b.wrappers, dicts |-> b.dicts, instances |-> inst1,
              ret |-> None, exc |-> "TypeError", self |-> i]
        ELSE [wrappers |-> b.wrappers, dicts |-> b.dicts,
              instances |-> setattr(inst1, o, doc.name, bound),
              ret |-> bound, exc |-> "", self |-> i]

\* obj.attr: curry defines no __set__, so the instance's own attribute wins
\* and the class's wrapper is asked only when the instance has none
getattribute(ws, ds, inst, ns, o, a) ==
    IF a \in DOMAIN inst[o]
    THEN [wrappers |-> ws, dicts |-> ds, instances |-> inst, ret |-> inst[o][a],
          exc |-> "", self |-> 0]
    ELSE __get__(ws, ds, inst, ns[a].n, o)

\* One assignment of a class body: attr = curry(function), or
\* attr = curry(function)(*args) when args are given
Assign(attr, function, args) == [attr |-> attr, function |-> function, args |-> args]

\* The host classes: greet has a docstring, hello has none; salute stores a
\* second wrapper of greet under another name; tagged holds a positional
\* argument when the class is made.
ClassBodies ==
    {<<Assign("greet", "greet", <<>>), Assign("hello", "hello", <<>>)>>,
     <<Assign("greet", "greet", <<>>), Assign("salute", "greet", <<>>)>>,
     <<Assign("tagged", "tagged", <<Num(1)>>)>>}

RECURSIVE define_class(_, _, _, _)
\* runs the assignments stmts[k..] of a class stmts on the heaps ws, ds
define_class(stmts, k, ws, ds) ==
    IF k > Len(stmts)
    THEN [wrappers |-> ws, dicts |-> ds, namespace |-> <<>>]
    ELSE LET w == __init__(ws, ds, Function(stmts[k].function), None, stmts[k].args, None)
             rest == define_class(stmts, k + 1, w.wrappers, w.dicts)
         IN  [rest EXCEPT !.namespace =
                 [a \in DOMAIN rest.namespace \cup {stmts[k].attr} |->
                     IF a = stmts[k].attr THEN Ref(w.ref) ELSE rest.namespace[a]]]

InitBind ==
    /\ \E stmts \in ClassBodies :
          LET made == define_class(stmts, 1, <<>>, <<>>)
          IN  /\ wrappers = made.wrappers
              /\ dicts = made.dicts
              /\ namespace = made.namespace
    /\ instances = [o \in Objs |-> EmptyDict]
    /\ held = [o \in Objs |-> EmptyDict]
    /\ last = NoOp
    /\ probe = NoProbe

\* r = obj.attr
GetAttr(o, a) ==
    \E out \in {getattribute(wrappers, dicts, instances, namespace, o, a)} :
    \E hd \in {IF out.exc = "" /\ a \notin DOMAIN held[o]
               THEN setattr(held, o, a, out.ret) ELSE held} :
    \E heap \in {collect(out.wrappers, out.dicts, namespace, out.instances, hd, out.ret)} :
        /\ wrappers' = heap.wrappers
        /\ dicts' = heap.dicts
        /\ namespace' = heap.namespace
        /\ instances' = heap.instances
        /\ held' = heap.held
        /\ last' = [NoOp EXCEPT !.op = "getattr", !.obj = o, !.attr = a,
                                !.self = out.self,
                                !.callee = IF out.self = 0 THEN NoView
                                           ELSE view(wrappers, dicts, out.self),
                                !.callee_after = IF out.self = 0 THEN NoView
                                                 ELSE view(out.wrappers, out.dicts, out.self),
                                !.ret = heap.ret, !.exc = out.exc,
                                !.kept = SubSeq(heap.kept, 1, Len(wrappers))]
        /\ UNCHANGED probe

\* r = Greeter.attr: line 117-118, obj is None
GetClassAttr(a) ==
    /\ last' = [NoOp EXCEPT !.op = "classattr", !.attr = a, !.self = namespace[a].n,
                            !.callee = view(wrappers, dicts, namespace[a].n),
                            !.callee_after = view(wrappers, dicts, namespace[a].n),
                            !.ret = Ref(namespace[a].n),
                            !.kept = [i \in DOMAIN wrappers |-> i]]
    /\ UNCHANGED <<wrappers, dicts, instances, namespace, held, probe>>

\* r = w(*args) for a wrapper w the program got from an instance
CallHeld(o, a, args) ==
    /\ a \in DOMAIN held[o]
    /\ Call(held[o][a].n, args, EmptyDict)

NextBind ==
    \/ \E o \in Objs, a \in DOMAIN namespace : GetAttr(o, a)
    \/ \E a \in DOMAIN namespace : GetClassAttr(a)
    \/ \E o \in Objs, a \in DOMAIN namespace, v \in {Num(1), Num(2)} :
          CallHeld(o, a, <<v>>)

SpecBind == InitBind /\ [][NextBind]_vars

IsGetAttr == last.op = "getattr"

\* C4 as claimed: for greet(self, greeting) stored under its own name, with
\* or without a docstring, instance.greet returns a wrapper without error,
\* and calling that with v evaluates greet(instance, v).
C4_MethodBinding ==
    /\ (IsGetAttr /\ last.attr \in {"greet", "hello"}) => ReturnedWrapper
    /\ \A o \in Objs :
          (/\ IsCall
           /\ last.callee.function \in {Function("greet"), Function("hello")}
           /\ last.callee.args = <<Instance(o)>>
           /\ Len(last.args) = 1)
          => /\ last.invoked = <<[function |-> last.callee.function,
                                  args |-> <<Instance(o), last.args[1]>>,
                                  kwargs |-> EmptyDict]>>
             /\ last.ret = Result(last.callee.function.name)

\* C9 as claimed: every access of a curried attribute on an instance after
\* the first returns the object the first access returned.
C9_BoundCached ==
    (IsGetAttr /\ last.exc = "" /\ last.attr \in DOMAIN held[last.obj])
    => last.ret = held[last.obj][last.attr]

\* C10 as claimed: the bound wrapper holds the instance followed by the
\* wrapper's accumulated positional arguments, with the callable, checker and
\* named arguments carried over; access on the class returns the wrapper
\* itself.
C10_BindingPrepends ==
    /\ (IsGetAttr /\ last.self # 0 /\ last.exc = "")
       => /\ ReturnedWrapper
          /\ view(wrappers, dicts, last.ret.n) =
                [last.callee EXCEPT !.args = <<Instance(last.obj)>> \o last.callee.args]
    /\ last.op = "classattr"
       => last.exc = "" /\ last.ret = namespace[last.attr]

====
